---- MODULE Spec2Model ----
(***************************************************************************)
(* Model of the gradio JavaScript client (client/js/src/client.ts):        *)
(* the submission protocol engine (submit / predict / cancel, the          *)
(* listener registry, the skip-queue POST and the queued WebSocket         *)
(* handlers), the cold-start wake poll, the endpoint schema with the        *)
(* resolution of an endpoint, and blob extraction with the promise jobs    *)
(* of its concurrent walk.                                                 *)
(*                                                                         *)
(* JavaScript values are modelled as strings and records.  The JavaScript  *)
(* values undefined and null are the strings "undefined" and "null".       *)
(* Every event carries history fields that the program does not have:      *)
(* cause and frame (the callback that fired it and the index of the        *)
(* inbound frame it handled, 0 if none), at (the on() and off() calls made *)
(* before it) and to (the listeners fire_event invoked).                   *)
(***************************************************************************)
EXTENDS Integers, Sequences, FiniteSets, TLC

\* ---------------------------------------------------------------- bounds
NSub == 2              \* submissions made on the client
MaxFrames == 2         \* inbound socket frames of one submission (Spec)
MaxMultiFrames == 2    \* inbound socket frames of all submissions (SpecMulti)
MaxCalls == 4          \* on() and off() calls in the runs of the registry
MaxBusFrames == 1      \* frames handled in the runs of the registry
MaxListeners == 1      \* listeners registered by on() under one event kind

Sub == 1..NSub

Undefined == "undefined"
Null == "null"

QUEUE_FULL_MSG == "This application is too busy. Keep trying!"
BROKEN_CONNECTION_MSG == "Connection errored out."

\* the error string a server puts in output.error
Errors == {"server error"}

\* message of the exception response.json() raises on a body that is not JSON
JSON_ERROR_MSG == "Unexpected token in JSON"

\* ------------------------------------------------------------- variables
VARIABLES
    config,         \* the resolved Configuration: enable_queue, dependencies
    last_status,    \* client.ts:190, fn_index -> status
    listener_map,   \* client.ts:194, event kind -> sequence of listeners
    calls,          \* event kind -> the on() and off() calls made so far
    pc,             \* per submission: where its asynchronous chain stands
    data,           \* per submission: the argument tree given to submit
    sub_api_info,   \* per submission: api_info, the schema entry submit found
    refs,           \* per submission: the blob references of handle_blob
    uploads,        \* per submission: the upload of each reference
    socket,         \* per submission: the websocket variable of submit
    frames,         \* per submission: the inbound frames handled so far
    events,         \* per submission: the events its fire_event emitted
    cancelPc,       \* per submission: where its cancel() call stands
    predictState,   \* per submission: state of the promise predict returned
    predictBy,      \* per submission: whose event settled that promise
    posts,          \* per submission: the run POSTs sent and what came back
    resets,         \* per submission: the reset requests cancel() sent
    info_response,  \* the document the fetch of /info comes back with
    api_info_doc,   \* the variable api when view_api returned a schema
    api_map,        \* client.ts:192, endpoint name -> fn_index
    endpoint,       \* per submission: the endpoint argument of submit
    fn_index,       \* per submission: the fn_index submit resolved
    sub_entry,      \* per submission: the schema entry submit resolved
    walks,          \* path -> the walk_and_store_blobs call that awaits there
    microtasks,     \* the queue of promise jobs of the walk
    reads,          \* the reads of image blobs in flight
    \* construction of the client (client.ts:164-252)
    space_id,       \* whether process_endpoint found a space id
    has_callback,   \* whether options.status_callback was given
    wpc,            \* where the construction stands
    polls,          \* what the polls of check_space_status came back with
    cbLog,          \* the statuses options.status_callback was called with
    resolved,       \* how often res() of the client promise was called
    api             \* the variable api: "unset", "ok", or "error"

blobState == <<sub_api_info, refs, uploads>>

netState == <<posts, resets>>

apiState == <<info_response, api_info_doc, api_map, endpoint, fn_index, sub_entry>>

walkState == <<walks, microtasks, reads>>

mainVars == <<config, last_status, listener_map, calls, pc, data, blobState, netState,
              apiState, walkState, socket,
              frames, events, cancelPc, predictState, predictBy>>

wakeVars == <<space_id, has_callback, wpc, polls, cbLog, resolved, api>>

vars == <<mainVars, wakeVars>>

\* -------------------------------------------------------------- skip_queue
\* The queue field of a dependency record: a boolean, null, or not there.
QueueVals == {"true", "false", Null, "absent"}

Configs == [enable_queue : BOOLEAN, dependencies : [1..1 -> QueueVals]]

\* config?.dependencies?.[id]?.queue; dependency id is element id + 1.
DepQueue(id, cfg) ==
    IF id + 1 \in DOMAIN cfg.dependencies /\ cfg.dependencies[id + 1] # "absent"
    THEN cfg.dependencies[id + 1]
    ELSE Undefined

\* client.ts:801-807.  A queue that is neither null nor true is falsy
\* (false, or undefined when the record or its queue field is not there).
skip_queue(id, cfg) ==
    ~ (IF DepQueue(id, cfg) = Null
       THEN cfg.enable_queue
       ELSE DepQueue(id, cfg) = "true")

\* ------------------------------------------------------------ frames
PlainMsgs == {"send_hash", "send_data", "queue_full", "estimation", "progress",
              "process_starts", "unknown"}
ProcessMsgs == {"process_generating", "process_completed"}

\* An inbound frame: msg, success and output.error.
Frames ==
    {[msg |-> m, success |-> TRUE, error |-> Undefined] : m \in PlainMsgs \cup ProcessMsgs}
    \cup {[msg |-> m, success |-> FALSE, error |-> e] : m \in ProcessMsgs, e \in Errors}

\* The frames of the runs with several submissions.
MultiFrames == {f \in Frames : f.msg \in ProcessMsgs}

NoStatus == [queue |-> TRUE, status |-> Undefined, message |-> Undefined, fields |-> {}]

\* Lookup in a JavaScript object used as a map.
Lookup(m, k) == IF k \in DOMAIN m THEN m[k] ELSE Undefined

\* A process_completed case that passes the output on whatever success is.
process_completed_keeps_output(d) ==
    [type |-> "complete",
     status |-> [queue |-> TRUE,
                 status |-> IF d.success THEN "complete" ELSE "error",
                 message |-> IF ~ d.success THEN d.error ELSE Undefined,
                 fields |-> {"progress", "eta"}],
     data |-> "output"]

\* client.ts:981-992, the process_completed case of handle_message.
process_completed(d) ==
    [type |-> "complete",
     status |-> [queue |-> TRUE,
                 status |-> IF d.success THEN "complete" ELSE "error",
                 message |-> IF ~ d.success THEN d.error ELSE Undefined,
                 fields |-> {"progress", "eta"}],
     data |-> IF d.success THEN "output" ELSE Null]

\* client.ts:926-1006.  fields names the other fields the status carries.
handle_message(d, last) ==
    CASE d.msg = "send_data" ->
           [type |-> "data", status |-> NoStatus, data |-> Undefined]
      [] d.msg = "send_hash" ->
           [type |-> "hash", status |-> NoStatus, data |-> Undefined]
      [] d.msg = "queue_full" ->
           [type |-> "update",
            status |-> [queue |-> TRUE, status |-> "error",
                        message |-> QUEUE_FULL_MSG, fields |-> {}],
            data |-> Undefined]
      [] d.msg = "estimation" ->
           [type |-> "update",
            status |-> [queue |-> TRUE,
                        status |-> IF last # Undefined THEN last ELSE "pending",
                        message |-> Undefined,
                        fields |-> {"size", "position", "eta"}],
            data |-> Undefined]
      [] d.msg = "progress" ->
           [type |-> "update",
            status |-> [queue |-> TRUE, status |-> "pending",
                        message |-> Undefined, fields |-> {"progress"}],
            data |-> Undefined]
      [] d.msg = "process_generating" ->
           [type |-> "generating",
            status |-> [queue |-> TRUE,
                        status |-> IF d.success THEN "generating" ELSE "error",
                        message |-> IF ~ d.success THEN d.error ELSE Null,
                        fields |-> {"progress", "eta"}],
            data |-> IF d.success THEN "output" ELSE Null]
      [] d.msg = "process_completed" -> process_completed(d)
      [] d.msg = "process_starts" ->
           [type |-> "update",
            status |-> [queue |-> TRUE, status |-> "pending",
                        message |-> Undefined, fields |-> {"size", "position"}],
            data |-> Undefined]
      [] OTHER ->
           [type |-> "none",
            status |-> [queue |-> TRUE, status |-> "error",
                        message |-> Undefined, fields |-> {}],
            data |-> Undefined]

\* ------------------------------------------------------- payload trees
\* A payload node is a leaf [k, id], a sequence [k |-> "seq", items] or a
\* mapping [k |-> "map", fields], fields a sequence of [key, val] in
\* insertion order.  Leaf kinds: "scalar"; "blob" (a Blob) and "buffer" (a
\* Node Buffer), the binary leaves, told apart by id >= 1; and what
\* handle_blob puts in their place: "base64" (the inlined data of leaf id),
\* "file" (the object {is_file: true, name: <handle of leaf id>, data: null}),
\* "url" (the bare upload handle of leaf id) and "undefined".
Scalar == [k |-> "scalar", id |-> 0]
BlobLeaf(n) == [k |-> "blob", id |-> n]
BufferLeaf(n) == [k |-> "buffer", id |-> n]
SeqNode(items) == [k |-> "seq", items |-> items]
MapNode(fields) == [k |-> "map", fields |-> fields]
IsLeaf(node) == node.k \notin {"seq", "map"}

\* Path segments are strings: "0", "1", ... for sequence indices.
Idx(i) == ToString(i - 1)

\* api_info?.parameters[i]?.component || undefined, api_info given as the
\* sequence of the component names of its parameters.
ParamComponent(api_info, i) ==
    IF i \in DOMAIN api_info THEN api_info[i] ELSE Undefined

RECURSIVE walk_and_store_blobs(_, _, _, _, _)
\* client.ts:716-791, the references in the order the walk yields them when
\* the walks of the elements of every sequence complete in element order
\* (the order the promise jobs give is that of Spawn and RunJob below; the
\* specifications that start handle_blob with this operator use trees and
\* properties for which the order of the references makes no difference).
\* A reference is [path, blob, data, type]: blob is the id of the leaf to
\* upload or 0 (false, absent), data the id of the leaf inlined or 0.
walk_and_store_blobs(param, type, path, root, api_info) ==
    CASE param.k = "seq" ->
           LET RECURSIVE cat(_)
               cat(i) ==
                   IF i > Len(param.items) THEN << >>
                   ELSE walk_and_store_blobs(
                            param.items[i],
                            IF root THEN ParamComponent(api_info, i) ELSE type,
                            Append(path, Idx(i)), FALSE, api_info) \o cat(i + 1)
           IN cat(1)
      [] param.k = "buffer" ->
           << [path |-> path,
               blob |-> IF type = "Image" THEN 0 ELSE param.id,
               data |-> IF type = "Image" THEN param.id ELSE 0,
               type |-> type] >>
      [] param.k = "blob" ->
           IF type = "Image"
           THEN << [path |-> path, blob |-> 0, data |-> param.id, type |-> type] >>
           ELSE << [path |-> path, blob |-> param.id, data |-> 0, type |-> type] >>
      [] param.k = "map" ->
           LET RECURSIVE cat(_)
               cat(i) ==
                   IF i > Len(param.fields) THEN << >>
                   ELSE walk_and_store_blobs(
                            param.fields[i].val, Undefined,
                            Append(path, param.fields[i].key), FALSE, api_info)
                        \o cat(i + 1)
           IN cat(1)
      [] OTHER -> << >>

RECURSIVE NodeAt(_, _)
\* The node of the tree at the path.
NodeAt(node, path) ==
    IF path = << >> THEN node
    ELSE IF node.k = "seq"
    THEN NodeAt(node.items[CHOOSE j \in 1..Len(node.items) : Idx(j) = path[1]],
                Tail(path))
    ELSE NodeAt(node.fields[CHOOSE j \in 1..Len(node.fields) :
                                node.fields[j].key = path[1]].val,
                Tail(path))

RECURSIVE update_object(_, _, _)
\* client.ts:708-714: the tree with newValue stored at the path stack.
update_object(object, newValue, stack) ==
    IF object.k = "seq"
    THEN LET i == CHOOSE j \in 1..Len(object.items) : Idx(j) = stack[1]
         IN [object EXCEPT !.items[i] =
                IF Len(stack) > 1
                THEN update_object(object.items[i], newValue, Tail(stack))
                ELSE newValue]
    ELSE LET i == CHOOSE j \in 1..Len(object.fields) : object.fields[j].key = stack[1]
         IN [object EXCEPT !.fields[i].val =
                IF Len(stack) > 1
                THEN update_object(object.fields[i].val, newValue, Tail(stack))
                ELSE newValue]

\* What the upload of one blob comes back with: the server's array of
\* handles; a fetch that threw (upload_files returns {error}); or a JSON
\* body that has no element 0.
UploadOutcomes == {"ok", "fetch_failed", "no_handle"}

\* client.ts:675-683, the result of the map callback for reference ref when
\* its upload ends with outcome o: threw is the TypeError of reading
\* .files[0] of an UploadResponse that has no files.
upload_result(ref, o) ==
    IF ref.blob # 0
    THEN [path |-> ref.path, type |-> ref.type, base64 |-> 0,
          file_url |-> IF o = "ok" THEN ref.blob ELSE 0,
          threw |-> (o = "fetch_failed")]
    ELSE [path |-> ref.path, type |-> ref.type, base64 |-> ref.data,
          file_url |-> 0, threw |-> FALSE]

RECURSIVE reinsert(_, _, _)
\* client.ts:686-700, the forEach over the results r from element i on.
reinsert(d, r, i) ==
    IF i > Len(r) THEN d
    ELSE LET x == r[i]
             d1 == IF x.base64 # 0
                   THEN update_object(d, [k |-> "base64", id |-> x.base64], x.path)
                   ELSE IF x.type = "Gallery"
                   THEN update_object(d,
                            IF x.file_url # 0 THEN [k |-> "url", id |-> x.file_url]
                            ELSE [k |-> "undefined", id |-> 0], x.path)
                   ELSE IF x.file_url # 0
                   THEN update_object(d, [k |-> "file", id |-> x.file_url], x.path)
                   ELSE d
         IN reinsert(d1, r, i + 1)

\* client.ts:659-706 for the references blob_refs and the upload outcomes
\* outcome (one per reference): resolved is whether the promise handle_blob
\* returned is ever resolved (a rejected upload is only logged), data what
\* it is resolved with.
handle_blob(d, blob_refs, outcome) ==
    LET r == [i \in 1..Len(blob_refs) |-> upload_result(blob_refs[i], outcome[i])]
    IN IF \E i \in 1..Len(blob_refs) : r[i].threw
       THEN [resolved |-> FALSE, data |-> d]
       ELSE [resolved |-> TRUE, data |-> reinsert(d, r, 1)]

\* The argument trees and the endpoint schema entry of the submissions of
\* Spec and SpecMulti (SpecBlob walks larger trees).
MainPayloads == {SeqNode(<<Scalar>>), SeqNode(<<BlobLeaf(1)>>)}
MainApiInfo == <<"File">>

\* All submissions go to the endpoint of dependency 0.
MainFnIndex == 0

\* ------------------------------------------------- the endpoint schema
\* A string is the sequence of its pieces; "/" is a piece of its own.
Slash == "/"
Names == {<<"predict">>, <<"a">>}
WithSlash(name) == <<Slash>> \o name

\* endpoint.replace(/^\//, ""), client.ts:281.
trim_endpoint(str) == IF Len(str) > 0 /\ str[1] = Slash THEN Tail(str) ELSE str

\* The type of a parameter in the document of /info: type.type (a string,
\* or "schema" for an object), type.description, type.items?.type, and
\* whether type.type has oneOf or items.prefixItems.
RawType(type, description, items, oneOf, prefixItems) ==
    [type |-> type, description |-> description, items |-> items,
     oneOf |-> oneOf, prefixItems |-> prefixItems]

RawParameters ==
    << [label |-> "text", component |-> "Textbox",
        type |-> RawType("string", "text", Undefined, FALSE, FALSE)],
       [label |-> "image", component |-> "Image",
        type |-> RawType("schema", "image file", Undefined, FALSE, FALSE)],
       [label |-> "files", component |-> "File",
        type |-> RawType("schema", "files", Undefined, TRUE, FALSE)],
       [label |-> "gallery", component |-> "Gallery",
        type |-> RawType("array", "gallery", "schema", FALSE, FALSE)],
       [label |-> "tags", component |-> "Dropdown",
        type |-> RawType("array", "any valid json", "string", FALSE, FALSE)] >>

\* The endpoint entries of the documents: parameters and returns.
RawEndpointInfos ==
    { [parameters |-> <<RawParameters[1], RawParameters[5]>>,
       returns |-> <<RawParameters[1]>>],
      [parameters |-> <<RawParameters[2], RawParameters[3], RawParameters[4]>>,
       returns |-> << >>] }

FnIndexes == {0, 1}

\* Maps of a JavaScript object: the functions on a subset of the keys.
Maps(keys, vals) == UNION {[ks -> vals] : ks \in SUBSET keys}

\* The documents of /info.
RawInfos ==
    [named_endpoints : Maps({WithSlash(n) : n \in Names}, RawEndpointInfos),
     unnamed_endpoints : Maps(FnIndexes, RawEndpointInfos)]

\* client.ts:562-587.
get_type(type, component) ==
    IF type.type \in {"string", "boolean", "number"} THEN type.type
    ELSE IF type.description \in {"any valid value", "any valid json"} THEN "any"
    ELSE IF type.type = "array" /\ type.items = "string" THEN "string[]"
    ELSE IF component = "Image" THEN "string"
    ELSE IF type.oneOf THEN "Record<file> | file"
    ELSE IF type.prefixItems THEN ""
    ELSE Undefined

\* client.ts:589-601: the first branch has no return.
get_description(type, component) ==
    IF component = "Gallery" THEN Undefined
    ELSE IF type.oneOf THEN "Array of files or single file"
    ELSE type.description

\* client.ts:617-624 and 626-633, the callback of both map calls.
transform_parameter(p) ==
    [label |-> p.label, component |-> p.component,
     type |-> get_type(p.type, p.component),
     description |-> get_description(p.type, p.component)]

\* client.ts:613-633: parameters and returns are both made of
\* info.parameters.
transform_endpoint(info) ==
    [parameters |-> [i \in DOMAIN info.parameters |->
                        transform_parameter(info.parameters[i])],
     returns |-> [i \in DOMAIN info.parameters |->
                     transform_parameter(info.parameters[i])]]

\* client.ts:603-637.
transform_api_info(api_info) ==
    [named_endpoints |->
        [k \in DOMAIN api_info.named_endpoints |->
            transform_endpoint(api_info.named_endpoints[k])],
     unnamed_endpoints |->
        [k \in DOMAIN api_info.unnamed_endpoints |->
            transform_endpoint(api_info.unnamed_endpoints[k])]]

Predict0 == WithSlash(<<"predict">>)

view_api_no_alias(api_info) == api_info

\* client.ts:515-521: the entry of "/predict" is put under the unnamed
\* endpoint 0 when there is none.
view_api_alias(api_info) ==
    IF Predict0 \in DOMAIN api_info.named_endpoints
       /\ 0 \notin DOMAIN api_info.unnamed_endpoints
    THEN [api_info EXCEPT !.unnamed_endpoints =
            [k \in DOMAIN @ \cup {0} |->
                IF k = 0 THEN api_info.named_endpoints[Predict0] ELSE @[k]]]
    ELSE api_info

\* client.ts:498-524, what view_api returns for the document api_info.
view_api(api_info) == transform_api_info(view_api_alias(api_info))

\* The variable api before view_api returned, or when it returned the
\* error pair.
NoApi == [named_endpoints |-> << >>, unnamed_endpoints |-> << >>]

\* client.ts:192 and 204: the tables api_map may hold, from endpoint names
\* (without slash) to fn_index.
ApiMaps == Maps(Names, FnIndexes)

\* The endpoint argument of submit: a number or a string.
NumberEndpoint(i) == [number |-> TRUE, index |-> i, name |-> << >>]
StringEndpoint(str) == [number |-> FALSE, index |-> 0, name |-> str]

Endpoints ==
    {NumberEndpoint(i) : i \in FnIndexes}
    \cup {StringEndpoint(n) : n \in Names}
    \cup {StringEndpoint(WithSlash(n)) : n \in Names}

\* A fn_index that is undefined.
NoFnIndex == -1

\* An entry of an object that may be undefined: << >> or <<entry>>.
Entry(m, k) == IF k \in DOMAIN m THEN <<m[k]>> ELSE << >>

\* client.ts:275-284: the fn_index submit resolves for endpoint e.
resolve_fn_index(e, map) ==
    IF e.number THEN e.index
    ELSE IF trim_endpoint(e.name) \in DOMAIN map THEN map[trim_endpoint(e.name)]
    ELSE NoFnIndex

\* client.ts:275-284: the api_info submit resolves for endpoint e.
resolve_api_info(e, doc) ==
    IF e.number THEN Entry(doc.unnamed_endpoints, e.index)
    ELSE Entry(doc.named_endpoints, e.name)

\* The component names of the parameters of an entry that may be undefined.
Components(entry) ==
    IF entry = << >> THEN << >>
    ELSE [i \in DOMAIN entry[1].parameters |-> entry[1].parameters[i].component]

\* ------------------------------------------------------- the event bus
\* A listener is [fn, via]: the function and the handle whose on() put it
\* in the map.  "res" and "rej" are the two closures of predict (one pair
\* per predict call); "f" is a function of the caller.
Kinds == {"status", "data"}

\* cause, frame, at and to are the history fields: the callback that fired
\* the event ("then", "post", "message", "close", "cancel"), the index of
\* the frame it handled (0 if none), the number of on() and off() calls for
\* the kind of the event made before it, and the listeners invoked in the
\* order of their invocation.
StatusEvent(status, queue, message, fields, cause, frame) ==
    [type |-> "status", fn_index |-> MainFnIndex, status |-> status,
     queue |-> queue, message |-> message, fields |-> fields,
     cause |-> cause, frame |-> frame, at |-> 0, to |-> << >>]

DataEvent(d, cause, frame) ==
    [type |-> "data", fn_index |-> MainFnIndex, data |-> d,
     cause |-> cause, frame |-> frame, at |-> 0, to |-> << >>]

\* The state fire_event and the listeners of predict change.
Bus == [events |-> events, predictState |-> predictState, predictBy |-> predictBy]

\* client.ts:260-268, the two listeners of the predict call of submission p
\* invoked with event ev of submission s: res settles the promise on a data
\* event, rej on a status event with status error; a settled promise stays.
predict_listener(b, l, s, ev) ==
    IF b.predictState[l.via] # "pending" THEN b
    ELSE IF l.fn = "res"
    THEN [b EXCEPT !.predictState[l.via] = "resolved", !.predictBy[l.via] = s]
    ELSE IF l.fn = "rej" /\ ev.status = "error"
    THEN [b EXCEPT !.predictState[l.via] = "rejected", !.predictBy[l.via] = s]
    ELSE b

RECURSIVE invoke(_, _, _, _, _)
\* listeners.forEach((l) => l(event)) from listener i on.
invoke(b, listeners, i, s, ev) ==
    IF i > Len(listeners) THEN b
    ELSE invoke(predict_listener(b, listeners[i], s, ev), listeners, i + 1, s, ev)

\* client.ts:442-446, called by submission s: every listener in the map of
\* the client under the kind of the event is invoked.
fire_event(b, s, ev) ==
    LET listeners == listener_map[ev.type]
        logged == [b EXCEPT !.events[s] =
                     Append(@, [ev EXCEPT !.to = listeners, !.at = Len(calls[ev.type])])]
    IN invoke(logged, listeners, 1, s, ev)

SetBus(b) ==
    /\ events' = b.events
    /\ predictState' = b.predictState
    /\ predictBy' = b.predictBy

\* client.ts:457, 469 and 491-495: what on(), off() and submit() return.
SubmitReturn == {"on", "off", "cancel"}

\* The record of a call of on() or off() with listener l: the history of
\* the registry.
OnCall(l) == [op |-> "on", fn |-> l.fn, via |-> l.via, ret |-> SubmitReturn]
OffCall(l) == [op |-> "off", fn |-> l.fn, via |-> l.via, ret |-> SubmitReturn]

on_listeners_front(listeners, l) == <<l>> \o listeners

\* client.ts:452-455: listeners.push(listener).
on_listeners(listeners, l) == Append(listeners, l)

\* client.ts:465-467: listeners.filter((l) => l !== listener), every entry
\* of the map that is the function f is dropped.
off_listeners(listeners, f) == SelectSeq(listeners, LAMBDA l : l.fn # f)

\* ------------------------------------------------------------ actions
\* The client promise was resolved at the first attempt.
Constructed ==
    /\ space_id = FALSE
    /\ has_callback = FALSE
    /\ wpc = "done"
    /\ polls = << >>
    /\ cbLog = << >>
    /\ resolved = 1
    /\ api = "ok"

\* The state after construction: no submission was made yet.
Init ==
    /\ config \in Configs
    /\ last_status = << >>
    /\ listener_map = [status |-> << >>, data |-> << >>]
    /\ calls = [status |-> << >>, data |-> << >>]
    /\ pc = [s \in Sub |-> "idle"]
    /\ data = [s \in Sub |-> SeqNode(<< >>)]
    /\ sub_api_info = [s \in Sub |-> << >>]
    /\ refs = [s \in Sub |-> << >>]
    /\ uploads = [s \in Sub |-> << >>]
    /\ socket = [s \in Sub |-> "none"]
    /\ frames = [s \in Sub |-> << >>]
    /\ events = [s \in Sub |-> << >>]
    /\ cancelPc = [s \in Sub |-> "none"]
    /\ predictState = [s \in Sub |-> "none"]
    /\ predictBy = [s \in Sub |-> 0]
    /\ posts = [s \in Sub |-> << >>]
    /\ resets = [s \in Sub |-> 0]
    /\ info_response = NoApi
    /\ api_info_doc = NoApi
    /\ api_map = << >>
    /\ endpoint = [s \in Sub |-> NumberEndpoint(MainFnIndex)]
    /\ fn_index = [s \in Sub |-> MainFnIndex]
    /\ sub_entry = [s \in Sub |-> << >>]
    /\ walks = << >>
    /\ microtasks = << >>
    /\ reads = {}
    /\ Constructed

\* client.ts:292-296 and 665-683: handle_blob is called with the argument
\* tree d and the schema entry a; the walk yields the references and the
\* upload of every reference that has a blob is started.
StartHandleBlob(s, d, a) ==
    LET r == walk_and_store_blobs(d, Undefined, << >>, TRUE, a)
    IN /\ data' = [data EXCEPT ![s] = d]
       /\ sub_api_info' = [sub_api_info EXCEPT ![s] = a]
       /\ refs' = [refs EXCEPT ![s] = r]
       /\ uploads' = [uploads EXCEPT ![s] =
             [i \in 1..Len(r) |-> IF r[i].blob # 0 THEN "inflight" ELSE "inline"]]

\* client.ts:270-296 and 491-495: submit() with the call of handle_blob.
Submit(s, d, a) ==
    /\ pc[s] = "idle"
    /\ \A r \in Sub : r < s => pc[r] # "idle"
    /\ pc' = [pc EXCEPT ![s] = "blob"]
    /\ StartHandleBlob(s, d, a)
    /\ UNCHANGED <<config, last_status, listener_map, calls, socket, frames, events,
                   cancelPc, predictState, predictBy>>
    /\ UNCHANGED <<netState, apiState, walkState, wakeVars>>

\* client.ts:260-268: predict() is submit().on("data", res).on("status", ...).
Predict(s, d, a) ==
    /\ pc[s] = "idle"
    /\ \A r \in Sub : r < s => pc[r] # "idle"
    /\ pc' = [pc EXCEPT ![s] = "blob"]
    /\ StartHandleBlob(s, d, a)
    /\ listener_map' =
          [status |-> on_listeners(listener_map.status, [fn |-> "rej", via |-> s]),
           data |-> on_listeners(listener_map.data, [fn |-> "res", via |-> s])]
    /\ calls' = [status |-> Append(calls.status, OnCall([fn |-> "rej", via |-> s])),
                 data |-> Append(calls.data, OnCall([fn |-> "res", via |-> s]))]
    /\ predictState' = [predictState EXCEPT ![s] = "pending"]
    /\ UNCHANGED <<config, last_status, socket, frames, events, cancelPc, predictBy>>
    /\ UNCHANGED <<netState, apiState, walkState, wakeVars>>

\* client.ts:448-458, on() of the handle of submission s.
On(s, kind, f) ==
    /\ pc[s] # "idle"
    /\ listener_map' = [listener_map EXCEPT ![kind] = on_listeners(@, [fn |-> f, via |-> s])]
    /\ calls' = [calls EXCEPT ![kind] = Append(@, OnCall([fn |-> f, via |-> s]))]
    /\ UNCHANGED <<config, last_status, pc, data, socket, frames, events, cancelPc,
                   predictState, predictBy>>
    /\ UNCHANGED <<blobState, netState, apiState, walkState, wakeVars>>

\* client.ts:460-470, off() of the handle of submission s.
Off(s, kind, f) ==
    /\ pc[s] # "idle"
    /\ listener_map' = [listener_map EXCEPT ![kind] = off_listeners(@, f)]
    /\ calls' = [calls EXCEPT ![kind] = Append(@, OffCall([fn |-> f, via |-> s]))]
    /\ UNCHANGED <<config, last_status, pc, data, socket, frames, events, cancelPc,
                   predictState, predictBy>>
    /\ UNCHANGED <<blobState, netState, apiState, walkState, wakeVars>>

\* client.ts:80-107 and 677-679: the upload of reference i of submission s
\* settled with outcome o.
UploadSettled(s, i, o) ==
    /\ pc[s] \in {"blob", "stuck"}
    /\ i \in 1..Len(uploads[s])
    /\ uploads[s][i] = "inflight"
    /\ uploads' = [uploads EXCEPT ![s][i] = o]
    /\ UNCHANGED <<config, last_status, listener_map, calls, pc, data, sub_api_info, refs,
                   socket, frames, events, cancelPc, predictState, predictBy>>
    /\ UNCHANGED <<netState, apiState, walkState, wakeVars>>

\* client.ts:704: an upload threw, Promise.all rejected, the rejection is
\* logged and the promise handle_blob returned stays pending for ever.
HandleBlobRejected(s) ==
    /\ pc[s] = "blob"
    /\ \E i \in 1..Len(uploads[s]) : upload_result(refs[s][i], uploads[s][i]).threw
    /\ pc' = [pc EXCEPT ![s] = "stuck"]
    /\ UNCHANGED <<config, last_status, listener_map, calls, data, socket, frames, events,
                   cancelPc, predictState, predictBy>>
    /\ UNCHANGED <<blobState, netState, apiState, walkState, wakeVars>>

\* client.ts:685-703 and 297-440: every upload settled and none threw;
\* A run POST that has not settled.
InFlight == [code |-> 0, error |-> Undefined, threw |-> FALSE]

\* handle_blob resolves and its then-callback runs: the pending status of
\* the path skip_queue picks, then the run POST is sent or the socket is
\* created.
HandleBlobThen(s) ==
    /\ pc[s] = "blob"
    /\ \A i \in 1..Len(uploads[s]) : uploads[s][i] # "inflight"
    /\ handle_blob(data[s], refs[s], uploads[s]).resolved
    /\ data' = [data EXCEPT ![s] = handle_blob(data[s], refs[s], uploads[s]).data]
    /\ IF skip_queue(MainFnIndex, config)
       THEN /\ SetBus(fire_event(Bus, s,
                        StatusEvent("pending", FALSE, Undefined, {}, "then", 0)))
            /\ pc' = [pc EXCEPT ![s] = "posting"]
            /\ posts' = [posts EXCEPT ![s] = Append(@, InFlight)]
            /\ UNCHANGED socket
       ELSE /\ SetBus(fire_event(Bus, s,
                        StatusEvent("pending", TRUE, Undefined, {}, "then", 0)))
            /\ pc' = [pc EXCEPT ![s] = "queued"]
            /\ socket' = [socket EXCEPT ![s] = "open"]
            /\ UNCHANGED posts
    /\ UNCHANGED <<config, last_status, listener_map, calls, frames, cancelPc, resets>>
    /\ UNCHANGED <<blobState, apiState, walkState, wakeVars>>

\* What post_data comes back with: [output, status_code], or an exception
\* of response.json().  A fetch that threw is [{error: BROKEN...}, 500].
PostResponses ==
    {[code |-> 200, error |-> Undefined, threw |-> FALSE]}
    \cup {[code |-> 500, error |-> e, threw |-> FALSE] :
              e \in Errors \cup {BROKEN_CONNECTION_MSG}}
    \cup {[code |-> 200, error |-> JSON_ERROR_MSG, threw |-> TRUE]}

post_events_data_on_error(b, s, resp) ==
    fire_event(
        fire_event(b, s, StatusEvent("error", FALSE, resp.error, {}, "post", 0)),
        s, DataEvent("output", "post", 0))

\* client.ts:318-355: the events the then- and catch-callbacks of the run
\* POST fire for what post_data came back with.
post_events(b, s, resp) ==
    IF resp.threw
    THEN fire_event(b, s, StatusEvent("error", FALSE, resp.error, {}, "post", 0))
    ELSE IF resp.code = 200
    THEN fire_event(
             fire_event(b, s, StatusEvent("complete", FALSE, Undefined, {"eta"}, "post", 0)),
             s, DataEvent("output", "post", 0))
    ELSE fire_event(b, s, StatusEvent("error", FALSE, resp.error, {}, "post", 0))

\* client.ts:318-355: the run POST of submission s settled with resp.
PostDataSettled(s, resp) ==
    /\ pc[s] = "posting"
    /\ pc' = [pc EXCEPT ![s] = "posted"]
    /\ posts' = [posts EXCEPT ![s] = [@ EXCEPT ![Len(@)] = resp]]
    /\ SetBus(post_events(Bus, s, resp))
    /\ UNCHANGED <<config, last_status, listener_map, calls, data, socket, frames, cancelPc,
                   resets>>
    /\ UNCHANGED <<blobState, apiState, walkState, wakeVars>>

\* websocket.close(): a socket that is open starts its closing handshake.
Close(sock) == IF sock = "open" THEN "closing" ELSE sock

\* The status event of the message m that handle_message made of frame n.
MessageStatus(m, n) ==
    StatusEvent(m.status.status, m.status.queue, m.status.message,
                m.status.fields, "message", n)

HasStatusEvent(m) ==
    (m.type = "update" /\ m.status.status # Undefined)
        \/ m.type \in {"complete", "generating"}

HasDataEvent(m) == m.type # "hash" /\ m.data \notin {Undefined, Null}

onmessage_data_first(b, s, m, n) ==
    LET b1 == IF HasDataEvent(m)
              THEN fire_event(b, s, DataEvent(m.data, "message", n)) ELSE b
    IN IF HasStatusEvent(m) THEN fire_event(b1, s, MessageStatus(m, n)) ELSE b1

\* client.ts:394-437: the events websocket.onmessage fires for the message
\* m of frame n: the status event of its branch, then the data event.
onmessage_events(b, s, m, n) ==
    LET b1 == IF HasStatusEvent(m) THEN fire_event(b, s, MessageStatus(m, n)) ELSE b
    IN IF HasDataEvent(m)
       THEN fire_event(b1, s, DataEvent(m.data, "message", n)) ELSE b1

onmessage_closes_on_any_error(m) ==
    m.status.status = "error" \/ m.type = "complete"

\* client.ts:402-404 and 423-424: the branches of websocket.onmessage that
\* call websocket.close().
onmessage_closes(m) ==
    (m.type = "update" /\ m.status.status = "error") \/ m.type = "complete"

\* client.ts:387-438, websocket.onmessage for frame f.  The ws package
\* (client.ts:181-184) delivers the frames that arrive during the closing
\* handshake as well.
OnMessage(s, f) ==
    LET n == Len(frames[s]) + 1
        m == handle_message(f, Lookup(last_status, MainFnIndex))
    IN /\ pc[s] = "queued"
       /\ socket[s] \in {"open", "closing"}
       /\ frames' = [frames EXCEPT ![s] = Append(@, f)]
       /\ SetBus(onmessage_events(Bus, s, m, n))
       /\ socket' = [socket EXCEPT ![s] = IF onmessage_closes(m) THEN Close(@) ELSE @]
       /\ UNCHANGED <<config, last_status, listener_map, calls, pc, data, cancelPc>>
       /\ UNCHANGED <<blobState, netState, apiState, walkState, wakeVars>>

\* client.ts:374-385, websocket.onclose: the connection ended, cleanly or not.
OnClose(s, wasClean) ==
    /\ socket[s] \in {"open", "closing"}
    /\ socket' = [socket EXCEPT ![s] = "closed"]
    /\ IF ~ wasClean
       THEN SetBus(fire_event(Bus, s,
                StatusEvent("error", TRUE, BROKEN_CONNECTION_MSG, {}, "close", 0)))
       ELSE UNCHANGED <<events, predictState, predictBy>>
    /\ UNCHANGED <<config, last_status, listener_map, calls, pc, data, frames, cancelPc>>
    /\ UNCHANGED <<blobState, netState, apiState, walkState, wakeVars>>

\* client.ts:472-486: cancel() up to the await of the reset request.
Cancel(s) ==
    /\ pc[s] # "idle"
    /\ cancelPc[s] = "none"
    /\ cancelPc' = [cancelPc EXCEPT ![s] = "reset"]
    /\ SetBus(fire_event(Bus, s, StatusEvent("complete", FALSE, Undefined, {}, "cancel", 0)))
    /\ resets' = [resets EXCEPT ![s] = @ + 1]
    /\ UNCHANGED <<config, last_status, listener_map, calls, pc, data, socket, frames, posts>>
    /\ UNCHANGED <<blobState, apiState, walkState, wakeVars>>

\* client.ts:486-489: the reset request settled either way; websocket.close()
\* is a TypeError when websocket was never assigned, and cancel() rejects.
CancelResume(s) ==
    /\ cancelPc[s] = "reset"
    /\ cancelPc' = [cancelPc EXCEPT ![s] = IF socket[s] = "none" THEN "threw" ELSE "done"]
    /\ socket' = [socket EXCEPT ![s] = Close(@)]
    /\ UNCHANGED <<config, last_status, listener_map, calls, pc, data, frames, events,
                   predictState, predictBy>>
    /\ UNCHANGED <<blobState, netState, apiState, walkState, wakeVars>>

\* One submission, its listeners registered before its first event.
Next ==
    \/ \E d \in MainPayloads : Submit(1, d, MainApiInfo)
    \/ \E k \in Kinds : Len(listener_map[k]) = 0 /\ pc[1] = "blob" /\ On(1, k, "f")
    \/ \E i \in DOMAIN uploads[1], o \in UploadOutcomes : UploadSettled(1, i, o)
    \/ HandleBlobRejected(1)
    \/ HandleBlobThen(1)
    \/ \E resp \in PostResponses : PostDataSettled(1, resp)
    \/ \E f \in Frames : Len(frames[1]) < MaxFrames /\ OnMessage(1, f)
    \/ \E c \in BOOLEAN : OnClose(1, c)
    \/ Cancel(1)
    \/ CancelResume(1)

Spec == Init /\ [][Next]_vars

RECURSIVE FramesUpTo(_)
FramesUpTo(s) == IF s = 0 THEN 0 ELSE Len(frames[s]) + FramesUpTo(s - 1)

\* Frames handled by all submissions together.
TotalFrames == FramesUpTo(NSub)

\* Several submissions and predict calls on one client whose dependency 0
\* leaves queue null; listeners are put in at any time.
InitMulti == Init /\ config.dependencies[1] = Null

NextMulti ==
    \/ \E s \in Sub : Submit(s, SeqNode(<<Scalar>>), MainApiInfo)
    \/ \E s \in Sub : Predict(s, SeqNode(<<Scalar>>), MainApiInfo)
    \/ \E s \in Sub, k \in Kinds :
          Len(listener_map[k]) < MaxListeners /\ On(s, k, "f")
    \/ \E s \in Sub : HandleBlobThen(s)
    \/ \E s \in Sub, resp \in PostResponses : PostDataSettled(s, resp)
    \/ \E s \in Sub, f \in MultiFrames :
          TotalFrames < MaxMultiFrames /\ OnMessage(s, f)

SpecMulti == InitMulti /\ [][NextMulti]_vars

\* One submission whose caller puts two functions in and out of the
\* registry at any time.
BusFns == {"f", "g"}

\* The endpoint is queued.
QueuedConfig == [enable_queue |-> TRUE, dependencies |-> <<Null>>]

InitBus == Init /\ config = QueuedConfig

NextBus ==
    \/ Submit(1, SeqNode(<<Scalar>>), MainApiInfo)
    \/ \E k \in Kinds, f \in BusFns :
          Len(calls.status) + Len(calls.data) < MaxCalls /\ On(1, k, f)
    \/ \E k \in Kinds, f \in BusFns :
          /\ Len(calls.status) + Len(calls.data) < MaxCalls
          /\ \E i \in 1..Len(listener_map[k]) : listener_map[k][i].fn = f
          /\ Off(1, k, f)
    \/ HandleBlobThen(1)
    \/ \E f \in {m \in MultiFrames : m.success} :
          Len(frames[1]) < MaxBusFrames /\ OnMessage(1, f)

SpecBus == InitBus /\ [][NextBus]_vars

\* ------------------------------------------- resolution of the endpoint
\* client() awaits view_api: the configuration is resolved, the fetch of
\* /info is in flight with the document it will bring.
InitApi ==
    /\ config = QueuedConfig
    /\ last_status = << >>
    /\ listener_map = [status |-> << >>, data |-> << >>]
    /\ calls = [status |-> << >>, data |-> << >>]
    /\ pc = [s \in Sub |-> "idle"]
    /\ data = [s \in Sub |-> SeqNode(<< >>)]
    /\ sub_api_info = [s \in Sub |-> << >>]
    /\ refs = [s \in Sub |-> << >>]
    /\ uploads = [s \in Sub |-> << >>]
    /\ socket = [s \in Sub |-> "none"]
    /\ frames = [s \in Sub |-> << >>]
    /\ events = [s \in Sub |-> << >>]
    /\ cancelPc = [s \in Sub |-> "none"]
    /\ predictState = [s \in Sub |-> "none"]
    /\ predictBy = [s \in Sub |-> 0]
    /\ posts = [s \in Sub |-> << >>]
    /\ resets = [s \in Sub |-> 0]
    /\ info_response \in RawInfos
    /\ api_info_doc = NoApi
    /\ api_map = << >>
    /\ endpoint = [s \in Sub |-> NumberEndpoint(MainFnIndex)]
    /\ fn_index = [s \in Sub |-> MainFnIndex]
    /\ sub_entry = [s \in Sub |-> << >>]
    /\ walks = << >>
    /\ microtasks = << >>
    /\ reads = {}
    /\ space_id = FALSE
    /\ has_callback = FALSE
    /\ wpc = "schema"
    /\ polls = << >>
    /\ cbLog = << >>
    /\ resolved = 0
    /\ api = "unset"

\* client.ts:234-235, 202-210 and 498-528: view_api settled, with the
\* schema made of the document or, when the fetch threw, with the error
\* pair; config_success sets api_map to the table m and the client promise
\* is resolved.
ViewApiSettled(ok, m) ==
    /\ wpc = "schema"
    /\ api' = IF ok THEN "ok" ELSE "error"
    /\ api_info_doc' = IF ok THEN view_api(info_response) ELSE NoApi
    /\ api_map' = m
    /\ resolved' = resolved + 1
    /\ wpc' = "done"
    /\ UNCHANGED <<config, last_status, listener_map, calls, pc, data, blobState,
                   netState, socket, frames, events, cancelPc, predictState, predictBy>>
    /\ UNCHANGED <<info_response, endpoint, fn_index, sub_entry, walkState>>
    /\ UNCHANGED <<space_id, has_callback, polls, cbLog>>

\* client.ts:270-296: submit(e, d) resolves fn_index and api_info and calls
\* handle_blob with them.  When api is the error pair, api.named_endpoints
\* and api.unnamed_endpoints are undefined and submit throws a TypeError.
SubmitEndpoint(s, e, d) ==
    /\ resolved > 0
    /\ pc[s] = "idle"
    /\ \A r \in Sub : r < s => pc[r] # "idle"
    /\ endpoint' = [endpoint EXCEPT ![s] = e]
    /\ IF api = "ok"
       THEN /\ pc' = [pc EXCEPT ![s] = "blob"]
            /\ fn_index' = [fn_index EXCEPT ![s] = resolve_fn_index(e, api_map)]
            /\ sub_entry' = [sub_entry EXCEPT ![s] = resolve_api_info(e, api_info_doc)]
            /\ StartHandleBlob(s, d, Components(resolve_api_info(e, api_info_doc)))
       ELSE /\ pc' = [pc EXCEPT ![s] = "threw"]
            /\ fn_index' = [fn_index EXCEPT ![s] = resolve_fn_index(e, api_map)]
            /\ UNCHANGED <<sub_entry, data, blobState>>
    /\ UNCHANGED <<config, last_status, listener_map, calls, socket, frames, events,
                   cancelPc, predictState, predictBy>>
    /\ UNCHANGED <<info_response, api_info_doc, api_map>>
    /\ UNCHANGED <<netState, walkState, wakeVars>>

ApiPayload == SeqNode(<<BlobLeaf(1), BlobLeaf(2)>>)

NextApi ==
    \/ \E ok \in BOOLEAN, m \in ApiMaps : ViewApiSettled(ok, m)
    \/ \E s \in Sub, e \in Endpoints : SubmitEndpoint(s, e, ApiPayload)

SpecApi == InitApi /\ [][NextApi]_vars

\* ------------------------------------------------- claims: submissions
IsStatus(e, st) == e.type = "status" /\ e.status = st
Terminal(e) == e.type = "status" /\ e.status \in {"complete", "error"}

\* The events the handler of frame n of submission s fired.
EventsOfFrame(s, n) == SelectSeq(events[s], LAMBDA e : e.frame = n)

\* The status of the last status event before event i of submission s.
RECURSIVE LastStatusBefore(_, _)
LastStatusBefore(s, i) ==
    IF i <= 1 THEN Undefined
    ELSE IF events[s][i - 1].type = "status" THEN events[s][i - 1].status
    ELSE LastStatusBefore(s, i - 1)

\* C1: when cancel() is called before any terminal event of the submission,
\* the status=complete, queue=false event it fires is the last event of the
\* submission: no status or data event is delivered after it.
C1_NoEventAfterCancel ==
    \A s \in Sub : \A i \in 1..Len(events[s]) :
        (/\ events[s][i].cause = "cancel"
         /\ \A j \in 1..(i - 1) : ~ Terminal(events[s][j]))
        => /\ IsStatus(events[s][i], "complete")
           /\ events[s][i].queue = FALSE
           /\ i = Len(events[s])

\* C2: a listener registered through the handle of submission A is invoked
\* only with the events submission A emits.
C2_ListenersSeeOwnEventsOnly ==
    \A s \in Sub : \A i \in 1..Len(events[s]) :
        \A k \in 1..Len(events[s][i].to) : events[s][i].to[k].via = s

\* C3: the status event of an estimation frame carries the last lifecycle
\* status emitted before it for the submission (generating after a
\* successful process_generating frame), pending when there is none.
C3_EstimationKeepsLastStatus ==
    \A s \in Sub : \A i \in 1..Len(events[s]) :
        (/\ events[s][i].cause = "message"
         /\ frames[s][events[s][i].frame].msg = "estimation"
         /\ LastStatusBefore(s, i) \in {Undefined, "pending", "generating"})
        => IsStatus(events[s][i],
                    IF LastStatusBefore(s, i) = Undefined THEN "pending"
                    ELSE LastStatusBefore(s, i))

\* The path the then-callback of handle_blob took for submission s.
Path(s) ==
    CASE pc[s] \in {"posting", "posted"} -> "skip-queue"
      [] pc[s] = "queued" -> "queued"
      [] OTHER -> "none"

\* C4: with no queue override (queue null or absent) the submission takes
\* the skip-queue path when enable_queue is false and the queued path when
\* it is true; with queue false it takes the skip-queue path.
C4_TransportDecision ==
    \A s \in Sub : Path(s) # "none" =>
        LET q == config.dependencies[MainFnIndex + 1]
        IN /\ (q \in {Null, "absent"} /\ ~ config.enable_queue) => Path(s) = "skip-queue"
           /\ (q \in {Null, "absent"} /\ config.enable_queue) => Path(s) = "queued"
           /\ q = "false" => Path(s) = "skip-queue"

IsCompletedFailure(f) == f.msg = "process_completed" /\ ~ f.success

\* C6: the handler of a process_completed frame with success=false fires
\* exactly one event, a status event with status error whose message is
\* the output.error of the frame, fires no data event, and closes the socket.
C6_CompletedFailure ==
    \A s \in Sub : \A n \in 1..Len(frames[s]) :
        IsCompletedFailure(frames[s][n]) =>
            /\ Len(EventsOfFrame(s, n)) = 1
            /\ IsStatus(EventsOfFrame(s, n)[1], "error")
            /\ EventsOfFrame(s, n)[1].message = frames[s][n].error
            /\ socket[s] \in {"closing", "closed"}

\* A process_completed frame with success=false was handled and its event
\* was delivered to a registered status listener.
C6_Witness ==
    \E s \in Sub : \E n \in 1..Len(frames[s]) :
        /\ IsCompletedFailure(frames[s][n])
        /\ frames[s][n].error \in Errors
        /\ Len(EventsOfFrame(s, n)) > 0
        /\ Len(EventsOfFrame(s, n)[1].to) > 0

\* C9: cancel() on a submission that has already delivered a terminal status
\* fires no event.
C9_CancelAfterTerminalIsSilent ==
    \A s \in Sub : \A i \in 1..Len(events[s]) :
        events[s][i].cause = "cancel" =>
            \A j \in 1..(i - 1) : ~ Terminal(events[s][j])

\* C10: the promise of a predict call is settled by an event of the
\* submission that call started.
C10_PredictSettlesFromOwnSubmission ==
    \A p \in Sub : predictState[p] \in {"resolved", "rejected"} => predictBy[p] = p

\* The positions in the events of submission s of events fired for frames.
FrameEventAt(s) == {i \in 1..Len(events[s]) : events[s][i].cause = "message"}

\* C11: on the queued path the events of a submission are delivered in the
\* order its frames were handled, and a frame that yields a status and a
\* data event delivers exactly the two, the status event immediately before
\* the data event, with no other event between them.
C11_EventsInFrameOrder ==
    \A s \in Sub :
        /\ \A i, j \in FrameEventAt(s) :
               i < j => events[s][i].frame <= events[s][j].frame
        /\ \A i \in FrameEventAt(s) :
               events[s][i].type = "data"
                   /\ frames[s][events[s][i].frame].msg \in ProcessMsgs
               => /\ i > 1
                  /\ events[s][i - 1].type = "status"
                  /\ events[s][i - 1].frame = events[s][i].frame
                  /\ Len(EventsOfFrame(s, events[s][i].frame)) = 2

\* Two frames were handled, each delivered a status and a data event.
C11_Witness ==
    \E s \in Sub :
        /\ Len(frames[s]) = 2
        /\ \A n \in 1..2 :
               /\ frames[s][n].msg \in ProcessMsgs
               /\ Len(EventsOfFrame(s, n)) = 2
               /\ EventsOfFrame(s, n)[2].type = "data"

\* Type, status and queue of an event.
Shape(e) ==
    IF e.type = "status" THEN <<"status", e.status, e.queue>>
    ELSE <<"data", Undefined, Undefined>>

Shapes(s) == [i \in 1..Len(events[s]) |-> Shape(events[s][i])]

SkipPending == <<"status", "pending", FALSE>>

\* C12: a submission on the skip-queue path that is not cancelled sends one
\* run POST; it has delivered [pending queue=false] while the POST is in
\* flight and, once the POST settled, [pending, complete queue=false, data]
\* if it came back with status 200 and [pending, error queue=false] with no
\* data event if it came back with another status or could not be read.
C12_SkipQueueSequences ==
    \A s \in Sub :
        pc[s] \in {"posting", "posted"} /\ cancelPc[s] = "none"
        => /\ Len(posts[s]) = 1
           /\ pc[s] = "posting" =>
                 posts[s][1] = InFlight /\ Shapes(s) = <<SkipPending>>
           /\ pc[s] = "posted" =>
                 IF posts[s][1].code = 200 /\ ~ posts[s][1].threw
                 THEN Shapes(s) = <<SkipPending, <<"status", "complete", FALSE>>,
                                    <<"data", Undefined, Undefined>> >>
                 ELSE Shapes(s) = <<SkipPending, <<"status", "error", FALSE>> >>

\* A run POST came back with a status other than 200 and was not cancelled.
C12_Witness ==
    \E s \in Sub :
        /\ pc[s] = "posted" /\ cancelPc[s] = "none"
        /\ posts[s][1].code = 500
        /\ Len(events[s]) = 2

\* C13: cancel() called on a submission that has no socket fires the
\* status=complete, queue=false event, sends one reset request and
\* completes: it does not raise and the promise it returns is not rejected.
C13_CancelWithoutSocket ==
    \A s \in Sub :
        cancelPc[s] # "none" /\ socket[s] = "none"
        => /\ \E i \in 1..Len(events[s]) :
                 events[s][i].cause = "cancel" /\ IsStatus(events[s][i], "complete")
                     /\ events[s][i].queue = FALSE
           /\ resets[s] = 1
           /\ cancelPc[s] # "threw"

\* C19: once the handler of a frame has fired a status event with status
\* error (queue_full, process_generating or process_completed with
\* success=false), it has called websocket.close(): the socket of the
\* submission is closing or closed.
C19_ErrorFrameClosesSocket ==
    \A s \in Sub : \A i \in FrameEventAt(s) :
        IsStatus(events[s][i], "error") => socket[s] \in {"closing", "closed"}

\* The positions in the events of submission s of the status events that
\* a frame or the closure of the socket caused.
SocketStatusAt(s) ==
    {i \in 1..Len(events[s]) :
        events[s][i].type = "status" /\ events[s][i].cause \in {"message", "close"}}

\* C21: once a frame or the closure of the socket has delivered a status
\* event with status complete or error for a queued submission, no later
\* frame and no later closure delivers another status event for it.
C21_OneTerminalStatus ==
    \A s \in Sub : \A i, j \in SocketStatusAt(s) :
        Terminal(events[s][i]) => j <= i

\* ------------------------------------------------- claims: the registry
RECURSIVE Registered(_, _, _)
\* The listeners that the first n calls of log leave registered, from call
\* i on: those an on() call put in that no later off() call of the same
\* function follows, in the order of the on() calls.
Registered(log, n, i) ==
    IF i > n THEN << >>
    ELSE IF log[i].op = "on"
            /\ ~ \E j \in (i + 1)..n : log[j].op = "off" /\ log[j].fn = log[i].fn
    THEN <<[fn |-> log[i].fn, via |-> log[i].via]>> \o Registered(log, n, i + 1)
    ELSE Registered(log, n, i + 1)

\* C20: an emission of kind k invokes, in the order of their on() calls and
\* once per registration, the listeners registered for k that no off() call
\* made before the emission removed; on() and off() each returned a handle
\* with on, off and cancel.
C20_ListenerRegistry ==
    /\ \A s \in Sub : \A i \in 1..Len(events[s]) :
           events[s][i].to =
               Registered(calls[events[s][i].type], events[s][i].at, 1)
    /\ \A k \in Kinds : \A i \in 1..Len(calls[k]) :
           calls[k][i].ret = {"on", "off", "cancel"}

\* An emission invoked two listeners after off() had removed a function
\* that was registered before them.
C20_Witness ==
    \E s \in Sub : \E i \in 1..Len(events[s]) :
        LET e == events[s][i]
            log == calls[e.type]
        IN /\ Len(e.to) = 2
           /\ e.to[1].fn # e.to[2].fn \/ e.at = 4
           /\ \E a, b \in 1..e.at :
                 a < b /\ log[1].op = "on" /\ log[a].op = "on" /\ log[b].op = "off"
                     /\ log[b].fn = log[1].fn /\ log[a].fn # log[1].fn

\* --------------------------------------------- claims: the endpoint
\* The name n is an endpoint of the configuration and of the schema.
NamedEndpoint(n) ==
    n \in DOMAIN api_map /\ WithSlash(n) \in DOMAIN api_info_doc.named_endpoints

\* C17: for a named endpoint n of the configuration and the schema, the
\* submissions made with "n" and with "/n" resolved the same fn_index and
\* the same schema entry, and handle_blob got the same component types.
C17_SlashOptional ==
    \A n \in Names : \A s, r \in Sub :
        /\ NamedEndpoint(n)
        /\ pc[s] = "blob" /\ endpoint[s] = StringEndpoint(n)
        /\ pc[r] = "blob" /\ endpoint[r] = StringEndpoint(WithSlash(n))
        => /\ fn_index[s] = fn_index[r]
           /\ sub_entry[s] = sub_entry[r]
           /\ sub_api_info[s] = sub_api_info[r]

\* C18: when the document of /info has the named endpoint "/predict" and
\* no unnamed endpoint 0, the submissions made with 0 and with "/predict"
\* resolved a schema entry, the same one, and handle_blob got the same
\* component types.
C18_PredictAlias ==
    \A s, r \in Sub :
        /\ Predict0 \in DOMAIN info_response.named_endpoints
        /\ 0 \notin DOMAIN info_response.unnamed_endpoints
        /\ pc[s] = "blob" /\ endpoint[s] = NumberEndpoint(0)
        /\ pc[r] = "blob" /\ endpoint[r] = StringEndpoint(Predict0)
        => /\ sub_entry[s] # << >>
           /\ sub_entry[s] = sub_entry[r]
           /\ sub_api_info[s] = sub_api_info[r]

\* Both submissions were made on a schema with "/predict" and without the
\* unnamed endpoint 0, and the entry has three parameters.
C18_Witness ==
    \E s, r \in Sub :
        /\ Predict0 \in DOMAIN info_response.named_endpoints
        /\ 0 \notin DOMAIN info_response.unnamed_endpoints
        /\ pc[s] = "blob" /\ endpoint[s] = NumberEndpoint(0)
        /\ pc[r] = "blob" /\ endpoint[r] = StringEndpoint(Predict0)
        /\ Len(sub_api_info[r]) = 3

\* ------------------------------------------- construction and wake poll
MaxPolls == 3          \* polls of the space status during one construction

RetryStages == {"STOPPED", "SLEEPING", "BUILDING"}
RunningStages == {"RUNNING", "RUNNING_BUILDING"}
\* Stages of a space that the switch has no case for.
OtherStages == {"PAUSED"}
Stages == RetryStages \cup RunningStages \cup OtherStages

\* What one poll comes back with: a stage; "failed" (the fetch threw or the
\* status was not 200); "empty" (status 200 and a body that is null).
PollOutcomes == Stages \cup {"failed", "empty"}

NOT_FOUND == "NOT_FOUND"

\* A switch whose BUILDING case falls out without setTimeout.
polls_again_not_building(stage) == stage \in {"STOPPED", "SLEEPING"}

\* client.ts:876-913: the cases of the switch that end in setTimeout.
polls_again(stage) == stage \in {"STOPPED", "SLEEPING", "BUILDING"}

\* A switch that reports a building space with load_status complete.
space_status_building_complete(stage, flag) ==
    CASE stage \in {"STOPPED", "SLEEPING"} ->
           [status |-> "sleeping", load_status |-> "pending", detail |-> stage,
            discussions_enabled |-> Undefined]
      [] stage \in {"RUNNING", "RUNNING_BUILDING"} ->
           [status |-> "running", load_status |-> "complete", detail |-> stage,
            discussions_enabled |-> Undefined]
      [] stage = "BUILDING" ->
           [status |-> "building", load_status |-> "complete", detail |-> stage,
            discussions_enabled |-> Undefined]
      [] OTHER ->
           [status |-> "space_error", load_status |-> "error", detail |-> stage,
            discussions_enabled |-> flag]

\* client.ts:876-923: the status the switch over the stage reports; flag is
\* what discussions_enabled(space_name) came back with.
space_status(stage, flag) ==
    CASE stage \in {"STOPPED", "SLEEPING"} ->
           [status |-> "sleeping", load_status |-> "pending", detail |-> stage,
            discussions_enabled |-> Undefined]
      [] stage \in {"RUNNING", "RUNNING_BUILDING"} ->
           [status |-> "running", load_status |-> "complete", detail |-> stage,
            discussions_enabled |-> Undefined]
      [] stage = "BUILDING" ->
           [status |-> "building", load_status |-> "pending", detail |-> stage,
            discussions_enabled |-> Undefined]
      [] OTHER ->
           [status |-> "space_error", load_status |-> "error", detail |-> stage,
            discussions_enabled |-> flag]

\* client.ts:861-866, the status of a poll that failed.
poll_error ==
    [status |-> "error", load_status |-> "error", detail |-> NOT_FOUND,
     discussions_enabled |-> Undefined]

\* client.ts:222-227 and 245-250, the status of a configuration not loaded.
load_error ==
    [status |-> "error", load_status |-> "error", detail |-> NOT_FOUND,
     discussions_enabled |-> Undefined]

\* discussions_enabled of utils.ts: the flag it resolves with.
DiscussionsEnabled == {"true", "false"}

\* if (status_callback) status_callback(status)
Callback(status) ==
    cbLog' = IF has_callback THEN Append(cbLog, status) ELSE cbLog

\* The variable config before resolve_config assigned it.
NoConfig == [enable_queue |-> FALSE, dependencies |-> << >>]

\* client() was called; the first resolve_config is awaited.
InitWake ==
    /\ config = NoConfig
    /\ last_status = << >>
    /\ listener_map = [status |-> << >>, data |-> << >>]
    /\ calls = [status |-> << >>, data |-> << >>]
    /\ pc = [s \in Sub |-> "idle"]
    /\ data = [s \in Sub |-> SeqNode(<< >>)]
    /\ sub_api_info = [s \in Sub |-> << >>]
    /\ refs = [s \in Sub |-> << >>]
    /\ uploads = [s \in Sub |-> << >>]
    /\ socket = [s \in Sub |-> "none"]
    /\ frames = [s \in Sub |-> << >>]
    /\ events = [s \in Sub |-> << >>]
    /\ cancelPc = [s \in Sub |-> "none"]
    /\ predictState = [s \in Sub |-> "none"]
    /\ predictBy = [s \in Sub |-> 0]
    /\ posts = [s \in Sub |-> << >>]
    /\ resets = [s \in Sub |-> 0]
    /\ info_response = NoApi
    /\ api_info_doc = NoApi
    /\ api_map = << >>
    /\ endpoint = [s \in Sub |-> NumberEndpoint(MainFnIndex)]
    /\ fn_index = [s \in Sub |-> MainFnIndex]
    /\ sub_entry = [s \in Sub |-> << >>]
    /\ walks = << >>
    /\ microtasks = << >>
    /\ reads = {}
    /\ space_id \in BOOLEAN
    /\ has_callback \in BOOLEAN
    /\ wpc = "config"
    /\ polls = << >>
    /\ cbLog = << >>
    /\ resolved = 0
    /\ api = "unset"

\* client.ts:232-233 and 236-252: the first resolve_config settled; when it
\* threw, check_space_status starts its first poll if there is a space id.
ConfigSettled(cfg, ok) ==
    /\ wpc = "config"
    /\ IF ok
       THEN /\ config' = cfg
            /\ wpc' = "schema"
            /\ UNCHANGED cbLog
       ELSE /\ UNCHANGED config
            /\ IF space_id
               THEN wpc' = "polling" /\ UNCHANGED cbLog
               ELSE wpc' = "done" /\ Callback(load_error)
    /\ UNCHANGED <<last_status, listener_map, calls, pc, data, blobState, netState,
                   apiState, walkState, socket, frames,
                   events, cancelPc, predictState, predictBy>>
    /\ UNCHANGED <<space_id, has_callback, polls, resolved, api>>

\* client.ts:234-235 and 498-528: view_api settled (it catches what fetch
\* throws and returns an error pair), and the client promise is resolved.
SchemaSettled(ok) ==
    /\ wpc = "schema"
    /\ api' = IF ok THEN "ok" ELSE "error"
    /\ resolved' = resolved + 1
    /\ wpc' = "done"
    /\ UNCHANGED mainVars
    /\ UNCHANGED <<space_id, has_callback, polls, cbLog>>

\* client.ts:842-924 with handle_space_sucess (212-230) as the callback: one
\* poll settled.
PollSettled(o, flag) ==
    /\ wpc = "polling"
    /\ polls' = Append(polls, o)
    /\ CASE o = "failed" -> Callback(poll_error) /\ wpc' = "done"
         [] o = "empty" -> UNCHANGED cbLog /\ wpc' = "done"
         [] OTHER ->
              /\ Callback(space_status(o, flag))
              /\ wpc' = IF polls_again(o) THEN "timer"
                        ELSE IF space_status(o, flag).status = "running"
                        THEN "reconfig"
                        ELSE "done"
    /\ UNCHANGED mainVars
    /\ UNCHANGED <<space_id, has_callback, resolved, api>>

\* client.ts:886-888 and 910-912: the timeout ran out, the next poll starts.
TimerFires ==
    /\ wpc = "timer"
    /\ Len(polls) < MaxPolls
    /\ wpc' = "polling"
    /\ UNCHANGED mainVars
    /\ UNCHANGED <<space_id, has_callback, polls, cbLog, resolved, api>>

\* client.ts:215-229: resolve_config of handle_space_sucess settled.
ReconfigSettled(cfg, ok) ==
    /\ wpc = "reconfig"
    /\ IF ok
       THEN config' = cfg /\ wpc' = "reschema" /\ UNCHANGED cbLog
       ELSE UNCHANGED config /\ wpc' = "done" /\ Callback(load_error)
    /\ UNCHANGED <<last_status, listener_map, calls, pc, data, blobState, netState,
                   apiState, walkState, socket, frames,
                   events, cancelPc, predictState, predictBy>>
    /\ UNCHANGED <<space_id, has_callback, polls, resolved, api>>

\* client.ts:217-219: view_api of handle_space_sucess settled; res().
ReschemaSettled(ok) ==
    /\ wpc = "reschema"
    /\ api' = IF ok THEN "ok" ELSE "error"
    /\ resolved' = resolved + 1
    /\ wpc' = "done"
    /\ UNCHANGED mainVars
    /\ UNCHANGED <<space_id, has_callback, polls, cbLog>>

NextWake ==
    \/ \E cfg \in Configs, ok \in BOOLEAN : ConfigSettled(cfg, ok)
    \/ \E ok \in BOOLEAN : SchemaSettled(ok)
    \/ \E o \in PollOutcomes, flag \in DiscussionsEnabled : PollSettled(o, flag)
    \/ TimerFires
    \/ \E cfg \in Configs, ok \in BOOLEAN : ReconfigSettled(cfg, ok)
    \/ \E ok \in BOOLEAN : ReschemaSettled(ok)

SpecWake == InitWake /\ [][NextWake]_vars

\* ------------------------------------------------------ claims: wake
RECURSIVE LoadStatuses(_)
LoadStatuses(log) ==
    IF log = << >> THEN << >>
    ELSE <<Head(log).load_status>> \o LoadStatuses(Tail(log))

\* n times pending, then complete.
PendingsThenComplete(n) ==
    [i \in 1..(n + 1) |-> IF i <= n THEN "pending" ELSE "complete"]

\* The wake ran to the end: the polls ended with RUNNING and the configuration
\* and the schema were fetched.
WokeUp ==
    /\ wpc = "done"
    /\ polls # << >>
    /\ polls[Len(polls)] = "RUNNING"
    /\ api = "ok"

\* C7: after a wake whose polls were n stages of STOPPED, SLEEPING, BUILDING
\* and then RUNNING, with the configuration and the schema fetched again,
\* the status callback was called n+1 times, with load_status pending n
\* times and then complete, and the client promise was resolved once.
C7_WakeCallbacks ==
    (WokeUp /\ has_callback) =>
        /\ \A i \in 1..(Len(polls) - 1) : polls[i] \in RetryStages
        /\ LoadStatuses(cbLog) = PendingsThenComplete(Len(polls) - 1)
        /\ resolved = 1

\* The wake BUILDING, BUILDING, RUNNING ran to the end.
C7_Witness ==
    /\ WokeUp
    /\ has_callback
    /\ polls = <<"BUILDING", "BUILDING", "RUNNING">>
    /\ resolved = 1

\* C8: a next poll is scheduled exactly when the stage polled last is
\* STOPPED, SLEEPING or BUILDING (so every earlier poll was one of these);
\* every poll that came back with a stage or failed called the callback
\* once, with the status of that stage (error for a failed poll), and after
\* any other outcome than these three stages no poll follows.
C8_PollAgainIffRetryStage ==
    /\ (polls # << >> /\ wpc # "polling") =>
          (wpc = "timer" <=> polls[Len(polls)] \in RetryStages)
    /\ wpc = "polling" => \A i \in 1..Len(polls) : polls[i] \in RetryStages
    /\ \A i \in 1..(Len(polls) - 1) : polls[i] \in RetryStages
    /\ has_callback =>
          \A i \in 1..Len(polls) :
             polls[i] # "empty" =>
                /\ Len(cbLog) >= i
                /\ cbLog[i].status =
                      CASE polls[i] \in {"STOPPED", "SLEEPING"} -> "sleeping"
                        [] polls[i] = "BUILDING" -> "building"
                        [] polls[i] \in RunningStages -> "running"
                        [] polls[i] = "failed" -> "error"
                        [] OTHER -> "space_error"
    /\ (has_callback /\ polls # << >> /\ wpc \in {"timer", "polling", "reconfig"}) =>
          Len(cbLog) = Len(polls)

\* A third poll was scheduled after two retry stages, with no limit reached
\* by the code, and a poll ended the loop with space_error.
C8_Witness ==
    /\ has_callback
    /\ Len(polls) = MaxPolls
    /\ polls[Len(polls)] \in OtherStages
    /\ wpc = "done"
    /\ cbLog[Len(cbLog)].status = "space_error"

\* C22: the client promise is resolved only when the configuration and the
\* schema were both fetched: a client that was resolved holds a schema,
\* not the error pair of a fetch of /info that failed.
C22_ResolvedOnlyWithSchema ==
    resolved > 0 => api = "ok"

\* ----------------------------------------------------- blob extraction
\* Argument trees with two binary leaves, flat, nested in a sequence and
\* in a mapping, and the schema entries they are submitted with.
BlobTrees ==
    { SeqNode(<<BlobLeaf(1), BlobLeaf(2)>>),
      SeqNode(<<SeqNode(<<BlobLeaf(1), Scalar>>), BufferLeaf(2)>>),
      SeqNode(<<MapNode(<<[key |-> "a", val |-> BlobLeaf(1)]>>), BlobLeaf(2)>>),
      SeqNode(<<Scalar, BlobLeaf(1)>>) }

ApiInfos == { << >>, <<"File", "Image">>, <<"Gallery", "File">> }

\* One submission of a tree with binary leaves, up to the pending status.
NextBlob ==
    \/ \E d \in BlobTrees, a \in ApiInfos : Submit(1, d, a)
    \/ \E i \in DOMAIN uploads[1], o \in UploadOutcomes : UploadSettled(1, i, o)
    \/ HandleBlobRejected(1)
    \/ HandleBlobThen(1)

SpecBlob == Init /\ [][NextBlob]_vars

\* ------------------------------------------------- the concurrent walk
\* walk_and_store_blobs as the promise jobs run it.  A call on a sequence
\* starts the walks of all its elements and awaits Promise.all of the map
\* callbacks; a call on a mapping awaits the walk of one field after the
\* other; a call on an image Blob awaits the read of the blob; every other
\* call returns without awaiting.  walks[path] is [acc, wait]: blob_refs of
\* the call at path, and the callbacks Promise.all still waits for (of a
\* sequence) or the field whose walk is awaited (of a mapping).
\* A job is [kind, path, r]:
\*   "cb"   the map callback of the sequence at path resumes with the
\*          references r of an element;
\*   "all"  Promise.all of the sequence at path sees a callback finished;
\*   "ret"  the call on the sequence at path resumes after Promise.all;
\*   "key"  the call on the mapping at path resumes with the references r
\*          of the field it awaited.
Job(kind, path, r) == [kind |-> kind, path |-> path, r |-> r]

\* The state the walk works on; res is << >> or <<r>> when the call just
\* made returned r without awaiting, result the same for the outermost call.
WalkState ==
    [walks |-> walks, mq |-> microtasks, reads |-> reads,
     res |-> << >>, result |-> << >>]

Front(path) == SubSeq(path, 1, Len(path) - 1)

\* client.ts:744-767: the reference of a binary leaf.
leaf_ref(param, type, path) ==
    IF type = "Image"
    THEN [path |-> path, blob |-> 0, data |-> param.id, type |-> type]
    ELSE [path |-> path, blob |-> param.id, data |-> 0, type |-> type]

scalar_refs_as_leaf(param, path) ==
    <<[path |-> path, blob |-> 0, data |-> 0, type |-> Undefined]>>

\* client.ts:788-790: a leaf that is not binary yields no reference.
scalar_refs(param, path) == << >>

concat_refs_overwrite(acc, r) == r

\* client.ts:739 and 774: blob_refs = blob_refs.concat(...).
concat_refs(acc, r) == acc \o r

RECURSIVE Spawn(_, _, _, _, _, _)
RECURSIVE SpawnElements(_, _, _, _, _, _, _)
RECURSIVE StepMap(_, _, _, _, _)

\* client.ts:723-791: the call walk_and_store_blobs(param, type, path,
\* root, api_info) up to its first await or its return.
Spawn(st, param, type, path, root, api_info) ==
    CASE param.k = "seq" ->
           LET st1 == [st EXCEPT !.walks = @ @@ (path :>
                          [acc |-> << >>, wait |-> Len(param.items)])]
               st2 == SpawnElements(st1, param, type, path, root, api_info, 1)
           IN [st2 EXCEPT !.res = << >>,
                          !.mq = IF Len(param.items) = 0
                                 THEN Append(@, Job("ret", path, << >>)) ELSE @]
      [] param.k = "buffer" ->
           [st EXCEPT !.res = << <<leaf_ref(param, type, path)>> >>]
      [] param.k = "blob" ->
           IF type = "Image"
           THEN [st EXCEPT !.reads = @ \cup {leaf_ref(param, type, path)},
                           !.res = << >>]
           ELSE [st EXCEPT !.res = << <<leaf_ref(param, type, path)>> >>]
      [] param.k = "map" ->
           StepMap([st EXCEPT !.walks = @ @@ (path :> [acc |-> << >>, wait |-> 0])],
                   param, path, 1, api_info)
      [] OTHER -> [st EXCEPT !.res = <<scalar_refs(param, path)>>]

\* client.ts:727-741: param.map calls the callback of element i and of the
\* elements after it; the callback whose walk returned at once resumes as
\* a job.
SpawnElements(st, param, type, path, root, api_info, i) ==
    IF i > Len(param.items) THEN st
    ELSE LET c == Spawn(st, param.items[i],
                        IF root THEN ParamComponent(api_info, i) ELSE type,
                        Append(path, Idx(i)), FALSE, api_info)
             c1 == IF c.res # << >>
                   THEN [c EXCEPT !.mq = Append(@, Job("cb", path, c.res[1]))]
                   ELSE c
         IN SpawnElements(c1, param, type, path, root, api_info, i + 1)

\* client.ts:768-787: the loop of the call on the mapping at path, from
\* field j: it returns after the last field, else calls the walk of field j
\* and awaits it.
StepMap(st, param, path, j, api_info) ==
    IF j > Len(param.fields) THEN [st EXCEPT !.res = <<st.walks[path].acc>>]
    ELSE LET c == Spawn(st, param.fields[j].val, Undefined,
                        Append(path, param.fields[j].key), FALSE, api_info)
             c1 == [c EXCEPT !.walks[path].wait = j, !.res = << >>]
         IN IF c.res # << >>
            THEN [c1 EXCEPT !.mq = Append(@, Job("key", path, c.res[1]))]
            ELSE c1

\* The promise of the call at path is resolved with r: the call that
\* awaits it resumes as a job; the outermost call is awaited by handle_blob.
Resolve(st, tree, path, r) ==
    IF path = << >> THEN [st EXCEPT !.result = <<r>>]
    ELSE IF NodeAt(tree, Front(path)).k = "seq"
    THEN [st EXCEPT !.mq = Append(@, Job("cb", Front(path), r))]
    ELSE [st EXCEPT !.mq = Append(@, Job("key", Front(path), r))]

\* What the job at the head of the queue does.
RunJob(st, tree, job, api_info) ==
    CASE job.kind = "cb" ->
           [st EXCEPT !.walks[job.path].acc = concat_refs(@, job.r),
                      !.mq = Append(@, Job("all", job.path, << >>))]
      [] job.kind = "all" ->
           [st EXCEPT !.walks[job.path].wait = @ - 1,
                      !.mq = IF st.walks[job.path].wait = 1
                             THEN Append(@, Job("ret", job.path, << >>)) ELSE @]
      [] job.kind = "ret" ->
           Resolve(st, tree, job.path, st.walks[job.path].acc)
      [] OTHER ->
           LET st1 == [st EXCEPT !.walks[job.path].acc = concat_refs(@, job.r)]
               c == StepMap(st1, NodeAt(tree, job.path), job.path,
                            st1.walks[job.path].wait + 1, api_info)
           IN IF c.res # << >>
              THEN Resolve([c EXCEPT !.res = << >>], tree, job.path, c.res[1])
              ELSE c

\* The walk goes on in state st; when the outermost call returned,
\* handle_blob resumes with blob_refs and starts the uploads
\* (client.ts:665-683).
WalkGoesOn(s, st) ==
    /\ walks' = st.walks
    /\ microtasks' = st.mq
    /\ reads' = st.reads
    /\ IF st.result # << >>
       THEN /\ pc' = [pc EXCEPT ![s] = "blob"]
            /\ refs' = [refs EXCEPT ![s] = st.result[1]]
            /\ uploads' = [uploads EXCEPT ![s] =
                  [i \in 1..Len(st.result[1]) |->
                      IF st.result[1][i].blob # 0 THEN "inflight" ELSE "inline"]]
       ELSE UNCHANGED <<pc, refs, uploads>>

\* client.ts:270-296 and 665-671: submit(0, d) with the schema entry a calls
\* handle_blob, which calls walk_and_store_blobs(d, undefined, [], true, a).
StartWalk(s, d, a) ==
    /\ pc[s] = "idle"
    /\ \A r \in Sub : r < s => pc[r] # "idle"
    /\ pc' = [pc EXCEPT ![s] = "walk"]
    /\ data' = [data EXCEPT ![s] = d]
    /\ sub_api_info' = [sub_api_info EXCEPT ![s] = a]
    /\ LET st == Spawn(WalkState, d, Undefined, << >>, TRUE, a)
       IN walks' = st.walks /\ microtasks' = st.mq /\ reads' = st.reads
    /\ UNCHANGED <<config, last_status, listener_map, calls, socket, frames, events,
                   cancelPc, predictState, predictBy, refs, uploads>>
    /\ UNCHANGED <<netState, apiState, wakeVars>>

\* The job at the head of the queue runs.
RunMicrotask(s) ==
    /\ pc[s] = "walk"
    /\ microtasks # << >>
    /\ WalkGoesOn(s, RunJob([WalkState EXCEPT !.mq = Tail(microtasks)], data[s],
                            Head(microtasks), sub_api_info[s]))
    /\ UNCHANGED <<config, last_status, listener_map, calls, socket, frames, events,
                   cancelPc, predictState, predictBy, data, sub_api_info>>
    /\ UNCHANGED <<netState, apiState, wakeVars>>

\* client.ts:756-764: the read of an image blob ends (the callback of the
\* reader runs when no promise job is left) and its call returns.
ReadSettled(s, ref) ==
    /\ pc[s] = "walk"
    /\ microtasks = << >>
    /\ ref \in reads
    /\ WalkGoesOn(s, Resolve([WalkState EXCEPT !.reads = @ \ {ref}], data[s],
                             ref.path, <<ref>>))
    /\ UNCHANGED <<config, last_status, listener_map, calls, socket, frames, events,
                   cancelPc, predictState, predictBy, data, sub_api_info>>
    /\ UNCHANGED <<netState, apiState, wakeVars>>

\* Argument trees of depth up to three, with and without binary leaves.
WalkTrees ==
    { SeqNode(<<BlobLeaf(1), BlobLeaf(2)>>),
      SeqNode(<<SeqNode(<<BlobLeaf(1), Scalar>>), BufferLeaf(2)>>),
      SeqNode(<<MapNode(<<[key |-> "a", val |-> BlobLeaf(1)],
                         [key |-> "b", val |-> SeqNode(<<BlobLeaf(2)>>)]>>),
                BlobLeaf(3)>>),
      SeqNode(<<SeqNode(<<BlobLeaf(1), SeqNode(<<BufferLeaf(2)>>)>>),
                SeqNode(<<BlobLeaf(3)>>)>>),
      SeqNode(<< >>),
      SeqNode(<<Scalar, MapNode(<< >>)>>),
      SeqNode(<<SeqNode(<<Scalar, SeqNode(<< >>)>>),
                MapNode(<<[key |-> "a", val |-> Scalar],
                         [key |-> "b", val |-> SeqNode(<<Scalar>>)]>>)>>) }

WalkApiInfos == { << >>, <<"Image", "Image">>, <<"File", "Image">> }

\* One submission, from the walk of its argument tree to its pending
\* status; the uploads are left in flight.
NextWalk ==
    \/ \E d \in WalkTrees, a \in WalkApiInfos : StartWalk(1, d, a)
    \/ RunMicrotask(1)
    \/ \E ref \in reads : ReadSettled(1, ref)
    \/ HandleBlobThen(1)

SpecWalk == Init /\ [][NextWalk]_vars

\* ----------------------------------------------- claims: blob extraction
\* The position of the element or field a path segment names in node.
Position(node, seg) ==
    IF node.k = "seq" THEN CHOOSE j \in 1..Len(node.items) : Idx(j) = seg
    ELSE CHOOSE j \in 1..Len(node.fields) : node.fields[j].key = seg

\* The leaf at path p is met before the leaf at path q by a depth-first
\* traversal of the tree: where the paths part, p takes the earlier child.
PathBefore(tree, p, q) ==
    \E k \in 1..Len(p) :
        /\ k <= Len(q)
        /\ SubSeq(p, 1, k - 1) = SubSeq(q, 1, k - 1)
        /\ p[k] # q[k]
        /\ Position(NodeAt(tree, SubSeq(p, 1, k - 1)), p[k])
               < Position(NodeAt(tree, SubSeq(p, 1, k - 1)), q[k])

RECURSIVE BinaryPaths(_, _)
\* The paths of the binary leaves of the tree under node, which is at path.
BinaryPaths(node, path) ==
    IF node.k = "seq"
    THEN UNION {BinaryPaths(node.items[i], Append(path, Idx(i))) :
                    i \in 1..Len(node.items)}
    ELSE IF node.k = "map"
    THEN UNION {BinaryPaths(node.fields[i].val, Append(path, node.fields[i].key)) :
                    i \in 1..Len(node.fields)}
    ELSE IF node.k \in {"blob", "buffer"} THEN {path}
    ELSE {}

\* The walk of the argument tree of submission s has returned.
Walked(s) == pc[s] = "blob"

\* C14: the references walk_and_store_blobs returned are in the depth-first
\* traversal order of the payload: the reference of a leaf met earlier
\* comes before the reference of a leaf met later.
C14_TraversalOrder ==
    \A s \in Sub : Walked(s) =>
        \A i, j \in 1..Len(refs[s]) :
            i < j => PathBefore(data[s], refs[s][i].path, refs[s][j].path)

\* C15: the walk returned one reference per binary leaf of the tree, none
\* missing and none twice, and the path of each reference leads in the
\* tree to the binary leaf the reference holds.
C15_OneReferencePerLeaf ==
    \A s \in Sub : Walked(s) =>
        /\ Len(refs[s]) = Cardinality(BinaryPaths(data[s], << >>))
        /\ {refs[s][i].path : i \in 1..Len(refs[s])} = BinaryPaths(data[s], << >>)
        /\ \A i \in 1..Len(refs[s]) :
               /\ NodeAt(data[s], refs[s][i].path).k \in {"blob", "buffer"}
               /\ NodeAt(data[s], refs[s][i].path).id
                      = refs[s][i].blob + refs[s][i].data

\* The walk of a tree with three binary leaves returned, the reads of two
\* image blobs among them having ended in the order opposite to theirs.
C15_Witness ==
    \E s \in Sub :
        /\ Walked(s)
        /\ Len(refs[s]) = 3
        /\ \E i, j \in 1..3 :
              /\ i < j
              /\ refs[s][i].data # 0 /\ refs[s][j].data # 0
              /\ PathBefore(data[s], refs[s][j].path, refs[s][i].path)

\* C16: handle_blob called with a tree that has no binary leaf gets an empty
\* sequence of references from the walk, starts no upload, and resolves
\* with the tree it was given.
C16_NoBinaryLeaf ==
    /\ [](\A s \in Sub :
             Walked(s) /\ BinaryPaths(data[s], << >>) = {}
             => refs[s] = << >> /\ uploads[s] = << >>)
    /\ [][\A s \in Sub :
             Walked(s) /\ pc'[s] # pc[s] /\ BinaryPaths(data[s], << >>) = {}
             => data'[s] = data[s]]_vars

\* handle_blob resolved for a nested tree that has no binary leaf.
C16_Witness ==
    \E s \in Sub :
        /\ pc[s] \in {"posting", "queued"}
        /\ refs[s] = << >>
        /\ BinaryPaths(data[s], << >>) = {}
        /\ \E i \in 1..Len(data[s].items) : ~ IsLeaf(data[s].items[i])

\* Several blobs were to be uploaded and the upload of one of them failed.
OneUploadFailed(s) ==
    /\ Cardinality({i \in DOMAIN uploads[s] : uploads[s][i] # "inline"}) >= 2
    /\ Cardinality({i \in DOMAIN uploads[s] : uploads[s][i] = "fetch_failed"}) = 1

\* C5: when one of several uploads fails, handle_blob still completes (its
\* promise is not left pending for ever); and once the submission went on
\* to its pending status, every leaf whose upload succeeded holds its file
\* handle and the leaf whose upload failed holds an error marker.
C5_UploadFailureIsIsolated ==
    \A s \in Sub : OneUploadFailed(s) =>
        /\ pc[s] # "stuck"
        /\ pc[s] \in {"posting", "queued"} =>
              \A i \in DOMAIN uploads[s] :
                 /\ uploads[s][i] = "ok" =>
                       NodeAt(data[s], refs[s][i].path).k \in {"file", "url"}
                 /\ uploads[s][i] = "fetch_failed" =>
                       NodeAt(data[s], refs[s][i].path).k = "error"
====
